---- MODULE Spec2Model ----
(***************************************************************************)
(* Model of the Bugsnag Terraform provider: the REST client (client.go    *)
(* and its copy in provider.go), the project resource (create / read /    *)
(* update / delete), the two data sources (list, find by name) and the    *)
(* provider's configure function.                                          *)
(*                                                                         *)
(* Strings are sequences of one-character strings, so that formatting a   *)
(* URL and parsing it again, or formatting a timestamp, are computed and  *)
(* not assumed.  Every handler is one action; the HTTP responses it       *)
(* receives are its inputs.                                                *)
(***************************************************************************)
EXTENDS Integers, Sequences, FiniteSets, TLC

\* ---- bounds of the model ------------------------------------------------
MaxProjects == 2     \* most projects the remote organization holds
MaxTime == 10        \* largest value of time.Now().Unix()

\* ---- strings ------------------------------------------------------------
\* The configurations the host asks to create: a name, a type and the
\* ignore_old_browsers flag.  One name holds the character that separates the
\* parameters of a query string.
Cfg(name, type, iob) == [name |-> name, type |-> type, iob |-> iob]
Configs ==
  {Cfg(<<"a">>, <<"js">>, TRUE), Cfg(<<"b">>, <<"rails">>, FALSE),
   Cfg(<<"a", "&", "b">>, <<"js">>, FALSE)}
Names == {c.name : c \in Configs}
Nil == <<"nil">>          \* Go's nil interface value / an attribute never set
IllTyped == <<"bad">>     \* a JSON value the schema type of its field rejects
NoId == <<>>              \* d.Id() of a resource that has no identifier

Digit(n) == <<"0", "1", "2", "3", "4", "5", "6", "7", "8", "9">>[n + 1]

\* strconv.FormatInt(n, 10) for n >= 0
RECURSIVE FormatInt(_)
FormatInt(n) ==
  IF n < 10 THEN <<Digit(n)>> ELSE Append(FormatInt(n \div 10), Digit(n % 10))

\* fmt's %v of a bool
FormatBool(b) == IF b THEN <<"true">> ELSE <<"false">>

StatusText(s) ==
  CASE s = 200 -> "200" [] s = 404 -> "404" [] s = 429 -> "429" [] OTHER -> "0"

\* ---- diagnostics --------------------------------------------------------
Diag(sev, summary, msg, arg) ==
  [severity |-> sev, summary |-> summary, detail |-> [msg |-> msg, arg |-> arg]]

\* diag.FromErr(err)
FromErr(e) == <<Diag("Error", e, "", <<>>)>>

Summaries(diags) == {diags[i].summary : i \in 1..Len(diags)}

\* ---- the schema ---------------------------------------------------------
\* Keys of getProjectSchema the model carries: the three inputs and one
\* server-computed field of each kind (id, string, URL, counter).  The keys are
\* the same whatever the three flags are.
getProjectSchema ==
  {"name", "type", "ignore_old_browsers", "id", "slug", "url", "open_error_count"}

\* ---- the remote service -------------------------------------------------
\* A stored project.  The server-computed attributes are functions of its id.
IdOf(n) == <<"p">> \o FormatInt(n)

RemoteField(p, f) ==
  CASE f = "name" -> p.name
    [] f = "type" -> p.type
    [] f = "ignore_old_browsers" -> p.iob
    [] f = "id" -> p.id
    [] f = "slug" -> <<"slug">> \o p.id
    [] f = "url" -> <<"url">> \o p.id
    [] OTHER -> <<"0">>

\* The JSON object the remote sends for a project; `bad` names a field whose
\* value does not have the type the schema declares ("none": all are fine).
ProjectJSON(p, bad) ==
  [f \in getProjectSchema |-> IF f = bad THEN IllTyped ELSE RemoteField(p, f)]

NilMap == [f \in getProjectSchema |-> Nil]

Index(s, x) == CHOOSE i \in 1..Len(s) : s[i] = x /\ \A j \in 1..(i - 1) : s[j] # x

\* strings.Split on a one-character separator
RECURSIVE SplitOn(_, _)
SplitOn(s, sep) ==
  IF \A i \in 1..Len(s) : s[i] # sep THEN <<s>>
  ELSE LET i == Index(s, sep)
       IN  <<SubSeq(s, 1, i - 1)>> \o SplitOn(SubSeq(s, i + 1, Len(s)), sep)

\* The value of a query parameter as the server's query parser sees it: the
\* query is cut at every "&", each piece at its first "=".
QueryGet(q, key) ==
  LET ps == SplitOn(q, "&")
      hit == {i \in 1..Len(ps) : Len(ps[i]) >= 2 /\ ps[i][1] = key /\ ps[i][2] = "="}
  IN  IF hit = {} THEN Nil
      ELSE LET i == CHOOSE k \in hit : \A j \in hit : k <= j
           IN  SubSeq(ps[i], 3, Len(ps[i]))

\* The project a POST with this query makes the remote store.
NewProject(remote, q) ==
  [id |-> IdOf(Len(remote) + 1), name |-> QueryGet(q, "name"),
   type |-> QueryGet(q, "type"), iob |-> QueryGet(q, "ignore_old_browsers")]

Knows(remote, id) == \E i \in 1..Len(remote) : remote[i].id = id
Lookup(remote, id) == remote[CHOOSE i \in 1..Len(remote) : remote[i].id = id]

\* ---- HTTP responses -----------------------------------------------------
\* err: the transport failed and there is no response.  readable: ioutil.ReadAll
\* of the body succeeds.  decodes: the body is JSON of the expected shape.
\* idKind: what the "id" member of a create response is.
Resp(err, status, readable, decodes, idKind, bad) ==
  [err |-> err, status |-> status, readable |-> readable, decodes |-> decodes,
   idKind |-> idKind, bad |-> bad]

TransportErr == Resp(TRUE, 0, FALSE, FALSE, "string", "none")
NoResp == Resp(TRUE, 0, FALSE, FALSE, "unused", "none")
BadChoices == {"none", "open_error_count"}
FailStatuses == {404, 429}

FailResps == {TransportErr} \cup
  {Resp(FALSE, s, rd, FALSE, "string", "none") : s \in FailStatuses, rd \in BOOLEAN}
OkResps(idKinds, bads) ==
  {Resp(FALSE, 200, TRUE, FALSE, "string", "none")} \cup
  {Resp(FALSE, 200, TRUE, TRUE, k, b) : k \in idKinds, b \in bads}

\* What the remote may answer to each request.  It answers 200 to a GET of a
\* project only if it holds it, and to a POST only while it has room.
ListResps == FailResps \cup OkResps({"string"}, BadChoices)
GetResps(remote, projectID) ==
  FailResps \cup (IF Knows(remote, projectID) THEN OkResps({"string"}, BadChoices) ELSE {})
PostResps(remote) ==
  FailResps \cup
  (IF Len(remote) < MaxProjects THEN OkResps({"string", "empty", "absent"}, {"none"}) ELSE {})
AuthResps == FailResps \cup {Resp(FALSE, 200, TRUE, TRUE, "string", "none")}

\* One round trip: the request sent (method, and path below the organization's
\* URL), the response got, and how many times the function that got it called
\* r.Body.Close().
Call(method, path, r, closes) ==
  [method |-> method, path |-> path, resp |-> r, closes |-> closes]

ListPath == <<"/projects", "?", "per_page", "=", "100">>
ProjectPath(projectID) == <<"/projects", "/">> \o projectID
ParamsPath(q) == <<"/projects", "?">> \o q

Result(val, diags, call, panic) ==
  [val |-> val, diags |-> diags, call |-> call, panic |-> panic]

RawBody(r) == <<"body", StatusText(r.status)>>

\* ---- client.go ----------------------------------------------------------
\* Each function takes the response its request receives and the remote's
\* projects at that moment, and returns its value, its diagnostics, the round
\* trip it made and whether it panicked.

\* The "unexpected error" diagnostic, carrying the raw body of the response.
UnexpectedError(r) ==
  Diag("Error", "unexpected error", "You have encountered an unexpected error.", RawBody(r))

\* listProjects without its case for status 429.
listProjects_No429(r, remote) ==
  IF r.err THEN Result(<<>>, FromErr("transport"), Call("GET", ListPath, r, 0), FALSE)
  ELSE IF r.status # 200 THEN
    IF ~r.readable
    THEN Result(<<>>, <<>>, Call("GET", ListPath, r, 1), TRUE)
    ELSE Result(<<>>, <<UnexpectedError(r)>>, Call("GET", ListPath, r, 1), FALSE)
  ELSE IF ~r.decodes
  THEN Result(<<>>, FromErr("decode"), Call("GET", ListPath, r, 1), FALSE)
  ELSE Result([i \in 1..Len(remote) |-> ProjectJSON(remote[i], r.bad)], <<>>,
              Call("GET", ListPath, r, 1), FALSE)

listProjects(r, remote) ==
  IF r.err THEN Result(<<>>, FromErr("transport"), Call("GET", ListPath, r, 0), FALSE)
  ELSE IF r.status # 200 THEN
    IF r.status = 429
    THEN Result(<<>>,
                <<Diag("Error", "rate limit reached",
                       "You have reached the rate limit, please try again later.", <<>>)>>,
                Call("GET", ListPath, r, 0), FALSE)
    ELSE IF ~r.readable
    THEN Result(<<>>, <<>>, Call("GET", ListPath, r, 1), TRUE)
    ELSE Result(<<>>, <<UnexpectedError(r)>>, Call("GET", ListPath, r, 1), FALSE)
  ELSE IF ~r.decodes
  THEN Result(<<>>, FromErr("decode"), Call("GET", ListPath, r, 1), FALSE)
  ELSE Result([i \in 1..Len(remote) |-> ProjectJSON(remote[i], r.bad)], <<>>,
              Call("GET", ListPath, r, 1), FALSE)

getProject(projectID, r, remote) ==
  IF r.err THEN Result(NilMap, FromErr("transport"), Call("GET", ProjectPath(projectID), r, 0), FALSE)
  ELSE IF r.status # 200 THEN
    IF ~r.readable
    THEN Result(NilMap, <<>>, Call("GET", ProjectPath(projectID), r, 1), TRUE)
    ELSE Result(NilMap, <<UnexpectedError(r)>>, Call("GET", ProjectPath(projectID), r, 1), FALSE)
  ELSE IF ~r.decodes
  THEN Result(NilMap, FromErr("decode"), Call("GET", ProjectPath(projectID), r, 1), FALSE)
  ELSE Result(ProjectJSON(Lookup(remote, projectID), r.bad), <<>>,
              Call("GET", ProjectPath(projectID), r, 1), FALSE)

\* fmt.Sprintf("?name=%s&type=%s&ignore_old_browsers=%v", ...): the values are
\* put in as they are, without escaping.
url_params(name, projectType, ignore_old_browsers) ==
  <<"name", "=">> \o name \o <<"&", "type", "=">> \o projectType
    \o <<"&", "ignore_old_browsers", "=">> \o FormatBool(ignore_old_browsers)

\* The decoded body of a 200 answer to the POST: the project just stored, its
\* "id" member as the response's idKind says.
CreatedJSON(q, r, remote) ==
  [ProjectJSON(NewProject(remote, q), r.bad) EXCEPT
     !["id"] = CASE r.idKind = "string" -> @ [] r.idKind = "empty" -> <<>> [] OTHER -> Nil]

\* What the remote holds after a POST with query q was answered by r: a 200
\* answer means the project was stored.
RemoteAfterPost(q, r, remote) ==
  IF ~r.err /\ r.status = 200 THEN Append(remote, NewProject(remote, q)) ELSE remote

createProject(name, projectType, ignore_old_browsers, r, remote) ==
  LET q == url_params(name, projectType, ignore_old_browsers)
      project == CreatedJSON(q, r, remote)
  IN
  IF r.err THEN Result(NoId, FromErr("transport"), Call("POST", ParamsPath(q), r, 0), FALSE)
  ELSE IF r.status # 200 THEN
    IF ~r.readable
    THEN Result(NoId, <<>>, Call("POST", ParamsPath(q), r, 1), TRUE)
    ELSE Result(NoId, <<UnexpectedError(r)>>, Call("POST", ParamsPath(q), r, 1), FALSE)
  ELSE IF ~r.decodes
  THEN Result(NoId, FromErr("decode"), Call("POST", ParamsPath(q), r, 1), FALSE)
  ELSE IF project["id"] = Nil      \* project["id"].(string) on a nil interface
  THEN Result(NoId, <<>>, Call("POST", ParamsPath(q), r, 1), TRUE)
  ELSE IF Len(project["id"]) = 0
  THEN Result(NoId,
              <<Diag("Error", "no project ID retrieved", "no project ID was retrieved.",
                     <<"body", "200">>)>>,
              Call("POST", ParamsPath(q), r, 1), FALSE)
  ELSE Result(project["id"], <<>>, Call("POST", ParamsPath(q), r, 1), FALSE)

\* ---- schema.ResourceData ------------------------------------------------
\* id is d.Id(); attrs are the values d.Get reads and d.Set writes for the keys
\* of getProjectSchema; projects is the "projects" attribute of the list data
\* source (set: it has been assigned).
NoProjects == [set |-> FALSE, val |-> <<>>]
Data(id, attrs) == [id |-> id, attrs |-> attrs, projects |-> NoProjects]

\* The keys whose value d.Set rejects.
BadKeys(project) == {f \in getProjectSchema : project[f] = IllTyped}

\* `for v := range getProjectSchema(...) { d.Set(v, project[v]) ... }`: Go visits
\* the keys of a map in an order it does not fix.  `visited` is the set of keys
\* the loop has set when it stops: all of them, or, when some value is rejected,
\* any set of accepted keys (those that came before the first rejected one).
Visits(project) ==
  IF BadKeys(project) = {} THEN {getProjectSchema}
  ELSE SUBSET (getProjectSchema \ BadKeys(project))

SetAll(d, project, visited) ==
  [d EXCEPT !.attrs = [f \in getProjectSchema |->
                         IF f \in visited THEN project[f] ELSE d.attrs[f]]]

\* What a handler hands back: the data, its diagnostics, the round trips it
\* made in order, whether it panicked, the remote's projects afterwards, and
\* the diagnostics of a handler it called whose result it did not return.
Out(d, diags, calls, panic, remote, inner) ==
  [d |-> d, diags |-> diags, calls |-> calls, panic |-> panic, remote |-> remote,
   inner |-> inner]

\* ---- resource_bugsnag.go ------------------------------------------------
\* m is the meta value the handler is given: "Client" is a *Client, anything
\* else makes m.(*Client) panic.

\* getProject returned a project: the loop over the schema runs.
ReadReachesLoop(d, m, r, remote) ==
  /\ m = "Client"
  /\ LET g == getProject(d.id, r, remote) IN ~g.panic /\ Len(g.diags) = 0

resourceProjectRead(d, m, r, visited, remote) ==
  IF m # "Client" THEN Out(d, <<>>, <<>>, TRUE, remote, <<>>)
  ELSE
  LET g == getProject(d.id, r, remote)
      project == g.val
      diags == <<Diag("Warning", "test", "hello", <<>>)>>
  IN  IF g.panic THEN Out(d, <<>>, <<g.call>>, TRUE, remote, <<>>)
      ELSE IF Len(g.diags) > 0 THEN Out(d, g.diags, <<g.call>>, FALSE, remote, <<>>)
      ELSE IF visited # getProjectSchema
      THEN Out(SetAll(d, project, visited),
               Append(diags, Diag("Error", "error reading project state",
                                  "error message, project", <<>>)),
               <<g.call>>, FALSE, remote, <<>>)
      ELSE Out(SetAll(d, project, visited), diags, <<g.call>>, FALSE, remote, <<>>)

\* The scan for the name, finding nothing.
HasName_Never(projects, name) == FALSE

HasName(projects, name) == \E i \in 1..Len(projects) : projects[i]["name"] = name

\* listProjects gave a list without the name: the POST is sent.
CreateReachesPost(d, m, r1, remote) ==
  /\ m = "Client"
  /\ LET l == listProjects(r1, remote)
     IN  ~l.panic /\ Len(l.diags) = 0 /\ ~HasName(l.val, d.attrs["name"])

\* createProject returned an id: SetId and the read follow.
CreateReachesRead(d, m, r1, r2, remote) ==
  /\ CreateReachesPost(d, m, r1, remote)
  /\ LET c == createProject(d.attrs["name"], d.attrs["type"],
                            d.attrs["ignore_old_browsers"] = FormatBool(TRUE), r2, remote)
     IN  ~c.panic /\ Len(c.diags) = 0

\* A create that sends the POST first and lists the projects after it.
resourceProjectCreate_PostFirst(d, m, r1, r2, r3, visited, remote) ==
  IF m # "Client" THEN Out(d, <<>>, <<>>, TRUE, remote, <<>>)
  ELSE
  LET name == d.attrs["name"]
      project_type == d.attrs["type"]
      ignore_old_browsers == d.attrs["ignore_old_browsers"] = FormatBool(TRUE)
      l == listProjects(r1, remote)
      c == createProject(name, project_type, ignore_old_browsers, r2, remote)
      remote2 == RemoteAfterPost(url_params(name, project_type, ignore_old_browsers),
                                 r2, remote)
      rd == resourceProjectRead([d EXCEPT !.id = c.val], m, r3, visited, remote2)
  IN  IF l.panic THEN Out(d, <<>>, <<l.call>>, TRUE, remote, <<>>)
      ELSE IF Len(l.diags) > 0 THEN Out(d, l.diags, <<l.call>>, FALSE, remote, <<>>)
      ELSE IF HasName(l.val, name)
      THEN Out(d, <<Diag("Error", "project already exists", "the project already exists!",
                         name)>>,
               <<l.call>>, FALSE, remote, <<>>)
      ELSE IF c.panic THEN Out(d, <<>>, <<c.call, l.call>>, TRUE, remote2, <<>>)
      ELSE IF Len(c.diags) > 0
      THEN Out(d, c.diags, <<c.call, l.call>>, FALSE, remote2, <<>>)
      ELSE Out(rd.d, c.diags, <<c.call, l.call>> \o rd.calls, rd.panic, remote2, rd.diags)

\* A create that asks for the list a second time when the first call fails.
resourceProjectCreate_RetriesList(d, m, r1, r2, r3, visited, remote) ==
  IF m # "Client" THEN Out(d, <<>>, <<>>, TRUE, remote, <<>>)
  ELSE
  LET name == d.attrs["name"]
      project_type == d.attrs["type"]
      ignore_old_browsers == d.attrs["ignore_old_browsers"] = FormatBool(TRUE)
      l == listProjects(r1, remote)
      c == createProject(name, project_type, ignore_old_browsers, r2, remote)
      remote2 == RemoteAfterPost(url_params(name, project_type, ignore_old_browsers),
                                 r2, remote)
      rd == resourceProjectRead([d EXCEPT !.id = c.val], m, r3, visited, remote2)
  IN  IF l.panic THEN Out(d, <<>>, <<l.call>>, TRUE, remote, <<>>)
      ELSE IF Len(l.diags) > 0
      THEN Out(d, l.diags \o l.diags, <<l.call, l.call>>, FALSE, remote, <<>>)
      ELSE IF HasName(l.val, name)
      THEN Out(d, <<Diag("Error", "project already exists", "the project already exists!",
                         name)>>,
               <<l.call>>, FALSE, remote, <<>>)
      ELSE IF c.panic THEN Out(d, <<>>, <<l.call, c.call>>, TRUE, remote2, <<>>)
      ELSE IF Len(c.diags) > 0
      THEN Out(d, c.diags, <<l.call, c.call>>, FALSE, remote2, <<>>)
      ELSE Out(rd.d, c.diags, <<l.call, c.call>> \o rd.calls, rd.panic, remote2, rd.diags)

resourceProjectCreate(d, m, r1, r2, r3, visited, remote) ==
  IF m # "Client" THEN Out(d, <<>>, <<>>, TRUE, remote, <<>>)
  ELSE
  LET name == d.attrs["name"]
      project_type == d.attrs["type"]
      ignore_old_browsers == d.attrs["ignore_old_browsers"] = FormatBool(TRUE)
      l == listProjects(r1, remote)
      c == createProject(name, project_type, ignore_old_browsers, r2, remote)
      remote2 == RemoteAfterPost(url_params(name, project_type, ignore_old_browsers),
                                 r2, remote)
      rd == resourceProjectRead([d EXCEPT !.id = c.val], m, r3, visited, remote2)
  IN  IF l.panic THEN Out(d, <<>>, <<l.call>>, TRUE, remote, <<>>)
      ELSE IF Len(l.diags) > 0 THEN Out(d, l.diags, <<l.call>>, FALSE, remote, <<>>)
      ELSE IF HasName(l.val, name)
      THEN Out(d, <<Diag("Error", "project already exists", "the project already exists!",
                         name)>>,
               <<l.call>>, FALSE, remote, <<>>)
      ELSE IF c.panic THEN Out(d, <<>>, <<l.call, c.call>>, TRUE, remote2, <<>>)
      ELSE IF Len(c.diags) > 0
      THEN Out(d, c.diags, <<l.call, c.call>>, FALSE, remote2, <<>>)
      ELSE Out(rd.d, c.diags, <<l.call, c.call>> \o rd.calls, rd.panic, remote2, rd.diags)

\* An update that sends the PATCH of updateProject.
resourceProjectUpdate_Patches(d, m, remote) ==
  Out(d, <<>>,
      <<Call("PATCH",
             ParamsPath(url_params(d.attrs["name"], d.attrs["type"],
                                   d.attrs["ignore_old_browsers"] = FormatBool(TRUE))),
             TransportErr, 0)>>,
      FALSE, remote, <<>>)

resourceProjectUpdate(d, m, remote) == Out(d, <<>>, <<>>, FALSE, remote, <<>>)

resourceProjectDelete(d, m, remote) == Out(d, <<>>, <<>>, FALSE, remote, <<>>)

\* ---- data_source_project.go ---------------------------------------------
\* unix is the value of time.Now().Unix() when the handler reads the clock.

\* listProjects gave a list: the handler goes on to use it.
ListSucceeds(m, r, remote) ==
  /\ m = "Client"
  /\ LET l == listProjects(r, remote) IN ~l.panic /\ Len(l.diags) = 0

\* A list that takes an empty answer for a failure.
dataSourceProjectsRead_EmptyIsError(d, m, r, unix, remote) ==
  IF m # "Client" THEN Out(d, <<>>, <<>>, TRUE, remote, <<>>)
  ELSE
  LET l == listProjects(r, remote)
      projects == l.val
  IN  IF l.panic THEN Out(d, <<>>, <<l.call>>, TRUE, remote, <<>>)
      ELSE IF Len(l.diags) > 0 THEN Out(d, l.diags, <<l.call>>, FALSE, remote, <<>>)
      ELSE IF Len(projects) = 0 \/ \E i \in 1..Len(projects) : BadKeys(projects[i]) # {}
      THEN Out(d, FromErr("set"), <<l.call>>, FALSE, remote, <<>>)
      ELSE Out([d EXCEPT !.projects = [set |-> TRUE, val |-> projects],
                         !.id = FormatInt(unix)],
               l.diags, <<l.call>>, FALSE, remote, <<>>)

dataSourceProjectsRead(d, m, r, unix, remote) ==
  IF m # "Client" THEN Out(d, <<>>, <<>>, TRUE, remote, <<>>)
  ELSE
  LET l == listProjects(r, remote)
      projects == l.val
  IN  IF l.panic THEN Out(d, <<>>, <<l.call>>, TRUE, remote, <<>>)
      ELSE IF Len(l.diags) > 0 THEN Out(d, l.diags, <<l.call>>, FALSE, remote, <<>>)
      ELSE IF \E i \in 1..Len(projects) : BadKeys(projects[i]) # {}
      THEN Out(d, FromErr("set"), <<l.call>>, FALSE, remote, <<>>)
      ELSE Out([d EXCEPT !.projects = [set |-> TRUE, val |-> projects],
                         !.id = FormatInt(unix)],
               l.diags, <<l.call>>, FALSE, remote, <<>>)

\* The last record with the name instead of the first.
FirstMatch_Last(projects, projectName) ==
  CHOOSE i \in 1..Len(projects) :
    /\ projects[i]["name"] = projectName
    /\ \A j \in (i + 1)..Len(projects) : projects[j]["name"] # projectName

\* The first record, in the order of the response, whose name is the one asked.
FirstMatch(projects, projectName) ==
  CHOOSE i \in 1..Len(projects) :
    /\ projects[i]["name"] = projectName
    /\ \A j \in 1..(i - 1) : projects[j]["name"] # projectName

dataSourceProjectRead(d, m, r, visited, unix, remote) ==
  IF m # "Client" THEN Out(d, <<>>, <<>>, TRUE, remote, <<>>)
  ELSE
  LET l == listProjects(r, remote)
      projects == l.val
      projectName == d.attrs["name"]
      project == projects[FirstMatch(projects, projectName)]
  IN  IF l.panic THEN Out(d, <<>>, <<l.call>>, TRUE, remote, <<>>)
      ELSE IF Len(l.diags) > 0 THEN Out(d, l.diags, <<l.call>>, FALSE, remote, <<>>)
      ELSE IF HasName(projects, projectName)
      THEN IF visited # getProjectSchema
           THEN Out(SetAll(d, project, visited), FromErr("set"), <<l.call>>, FALSE,
                    remote, <<>>)
           ELSE Out([SetAll(d, project, visited) EXCEPT !.id = FormatInt(unix)],
                    l.diags, <<l.call>>, FALSE, remote, <<>>)
      ELSE Out([d EXCEPT !.id = NoId],
               <<Diag("Error", "unable to find projects with the provided name",
                      "Unable to find the project with the name", projectName)>>,
               <<l.call>>, FALSE, remote, <<>>)

\* ---- provider.go --------------------------------------------------------
\* testAuth returns the response as it is; configure reads its status and
\* never closes its body.  What configure returns as the provider's meta on
\* success is its first parameter, the context.
configure(apiToken, organizationID, r) ==
  IF apiToken = <<>>
  THEN [meta |-> "nil", diags |-> <<Diag("Error", "Bugsnag API Token not provided", "", <<>>)>>,
        calls |-> <<>>]
  ELSE IF organizationID = <<>>
  THEN [meta |-> "nil",
        diags |-> <<Diag("Error", "Bugsnag organization ID not provided", "", <<>>)>>,
        calls |-> <<>>]
  ELSE IF r.err
  THEN [meta |-> "nil",
        diags |-> <<Diag("Error", "Unable to authenticate to Bugsnag", "Unexpected error", <<>>)>>,
        calls |-> <<Call("GET", <<>>, r, 0)>>]
  ELSE IF r.status = 429
  THEN [meta |-> "nil", diags |-> <<Diag("Error", "API rate limit exceeded", "", <<>>)>>,
        calls |-> <<Call("GET", <<>>, r, 0)>>]
  ELSE IF r.status # 200
  THEN [meta |-> "nil",
        diags |-> <<Diag("Error", "Unable to authenticate to Bugsnag",
                         "Unable to authenticate to Bugsnag API", <<>>)>>,
        calls |-> <<Call("GET", <<>>, r, 0)>>]
  ELSE [meta |-> "Context", diags |-> <<>>, calls |-> <<Call("GET", <<>>, r, 0)>>]

\* ---- the state ----------------------------------------------------------
VARIABLES
  remote,   \* the projects the remote organization holds, in server order
  meta,     \* what the provider's configure function handed to the host
  d,        \* the ResourceData as the last handler left it
  last      \* the last handler run: its inputs, round trips and diagnostics

vars == <<remote, meta, d, last>>

Run(op, m, d0, remote0, diags, inner, calls, panic) ==
  [op |-> op, m |-> m, d0 |-> d0, remote0 |-> remote0, diags |-> diags,
   inner |-> inner, calls |-> calls, panic |-> panic]

Idle == Run("none", "nil", Data(NoId, NilMap), <<>>, <<>>, <<>>, <<>>, FALSE)

Init ==
  /\ remote = <<>>
  /\ meta = "nil"
  /\ d = Data(NoId, NilMap)
  /\ last = Idle

\* The meta a handler can be given: a *Client built by NewClient, or what
\* configure handed to the host.
MetaArgs == {"Client"} \cup (IF meta = "nil" THEN {} ELSE {meta})

\* The data of a resource that is being created: no id, the configured inputs.
NewData(c) ==
  Data(NoId, [NilMap EXCEPT !["name"] = c.name, !["type"] = c.type,
                            !["ignore_old_browsers"] = FormatBool(c.iob)])

\* The data the host can hold for an existing resource: the id of a project
\* of the remote or of one that is gone, with attributes not yet read or read
\* earlier.
StaleId == IdOf(0)
StaleProject == [id |-> StaleId, name |-> <<"a">>, type |-> <<"js">>, iob |-> FormatBool(TRUE)]
PriorData ==
  {Data(i, a) : i \in {remote[k].id : k \in 1..Len(remote)} \cup {StaleId},
                a \in {NilMap, ProjectJSON(StaleProject, "none")}}

\* The data a data source is read into: the name asked for, and the id of an
\* earlier read, if any.
PriorLookupIds == {NoId, FormatInt(0)}
LookupData ==
  {[Data(i, NilMap) EXCEPT !.attrs["name"] = n] : i \in PriorLookupIds, n \in Names}

\* The host runs one handler at a time: it calls a handler when none is
\* running and takes the result before it calls the next.
Finish(op, m, d0, o) ==
  /\ remote' = o.remote
  /\ d' = o.d
  /\ last' = Run(op, m, d0, remote, o.diags, o.inner, o.calls, o.panic)
  /\ UNCHANGED meta

Return ==
  /\ last.op # "none"
  /\ last' = Idle
  /\ d' = Data(NoId, NilMap)
  /\ UNCHANGED <<remote, meta>>

Configure ==
  /\ last.op = "none"
  /\ \E apiToken \in {<<>>, <<"t">>}, organizationID \in {<<>>, <<"o">>} :
    \E r \in IF apiToken # <<>> /\ organizationID # <<>> THEN AuthResps ELSE {NoResp} :
      LET o == configure(apiToken, organizationID, r)
      IN  /\ meta' = o.meta
          /\ last' = Run("configure", "nil", Data(NoId, NilMap), remote, o.diags, <<>>,
                         o.calls, FALSE)
          /\ UNCHANGED <<remote, d>>

Create ==
  /\ last.op = "none"
  /\ \E c \in Configs, m \in MetaArgs :
    LET d0 == NewData(c) IN
    \E r1 \in IF m = "Client" THEN ListResps ELSE {NoResp} :
      \E r2 \in IF CreateReachesPost(d0, m, r1, remote) THEN PostResps(remote) ELSE {NoResp} :
        LET reads == CreateReachesRead(d0, m, r1, r2, remote)
            remote2 == RemoteAfterPost(url_params(c.name, c.type, c.iob), r2, remote)
            id == IdOf(Len(remote2))
        IN
        \E r3 \in IF reads THEN GetResps(remote2, id) ELSE {NoResp} :
          \E visited \in IF reads /\ ReadReachesLoop([d0 EXCEPT !.id = id], m, r3, remote2)
                         THEN Visits(getProject(id, r3, remote2).val)
                         ELSE {getProjectSchema} :
            Finish("Create", m, d0,
                   resourceProjectCreate(d0, m, r1, r2, r3, visited, remote))

Read ==
  /\ last.op = "none"
  /\ \E d0 \in PriorData, m \in MetaArgs :
    \E r \in IF m = "Client" THEN GetResps(remote, d0.id) ELSE {NoResp} :
      \E visited \in IF ReadReachesLoop(d0, m, r, remote)
                     THEN Visits(getProject(d0.id, r, remote).val)
                     ELSE {getProjectSchema} :
        Finish("Read", m, d0, resourceProjectRead(d0, m, r, visited, remote))

Update ==
  /\ last.op = "none"
  /\ \E d0 \in PriorData, m \in MetaArgs :
    Finish("Update", m, d0, resourceProjectUpdate(d0, m, remote))

Delete ==
  /\ last.op = "none"
  /\ \E d0 \in PriorData, m \in MetaArgs :
    Finish("Delete", m, d0, resourceProjectDelete(d0, m, remote))

List ==
  /\ last.op = "none"
  /\ \E i \in PriorLookupIds, m \in MetaArgs :
    \E r \in IF m = "Client" THEN ListResps ELSE {NoResp} :
      \E unix \in IF ListSucceeds(m, r, remote) THEN 0..MaxTime ELSE {0} :
        Finish("List", m, Data(i, NilMap),
               dataSourceProjectsRead(Data(i, NilMap), m, r, unix, remote))

Find ==
  /\ last.op = "none"
  /\ \E d0 \in LookupData, m \in MetaArgs :
    \E r \in IF m = "Client" THEN ListResps ELSE {NoResp} :
      LET l == listProjects(r, remote)
          matches == ListSucceeds(m, r, remote) /\ HasName(l.val, d0.attrs["name"])
      IN
      \E visited \in IF matches
                     THEN Visits(l.val[FirstMatch(l.val, d0.attrs["name"])])
                     ELSE {getProjectSchema} :
        \E unix \in IF matches /\ visited = getProjectSchema THEN 0..MaxTime ELSE {0} :
          Finish("Find", m, d0, dataSourceProjectRead(d0, m, r, visited, unix, remote))

Next ==
  Configure \/ Create \/ Read \/ Update \/ Delete \/ List \/ Find \/ Return

Spec == Init /\ [][Next]_vars

\* ---- what the claims speak of -------------------------------------------
GivenClient == last.m = "Client"
Answered(c) == ~c.resp.err
Decoded200(c) == ~c.resp.err /\ c.resp.status = 200 /\ c.resp.decodes
Sent(method) == \E i \in 1..Len(last.calls) : last.calls[i].method = method
HasError(diags) == \E i \in 1..Len(diags) : diags[i].severity = "Error"

\* The handler's list call was answered with the projects of the remote.
Listed ==
  /\ GivenClient
  /\ Len(last.calls) >= 1
  /\ last.calls[1].path = ListPath
  /\ Decoded200(last.calls[1])

\* The names of the records that list call returned.
ListedNames == {last.remote0[i].name : i \in 1..Len(last.remote0)}

\* The handler's second call is the POST.
Posted == Len(last.calls) >= 2 /\ last.calls[2].method = "POST"

\* C1: Create of a name that some record returned by listProjects carries
\* returns the one error "project already exists", sends no POST, leaves the
\* identifier unset and the remote as it was.
C1_DuplicateNameRejected ==
  (last.op = "Create" /\ Listed /\ last.d0.attrs["name"] \in ListedNames)
    => /\ Len(last.diags) = 1
       /\ last.diags[1].severity = "Error"
       /\ last.diags[1].summary = "project already exists"
       /\ ~Sent("POST")
       /\ d.id = NoId
       /\ remote = last.remote0

C1_Witness ==
  /\ last.op = "Create" /\ Listed /\ last.d0.attrs["name"] \in ListedNames
  /\ Len(last.calls) = 1
  /\ Summaries(last.diags) = {"project already exists"}

\* C2: a create response with status 200 whose decoded body has no id, or an
\* empty one, ends Create with the error "no project ID retrieved", the
\* identifier unset and no read.
C2_MissingIdClassified ==
  (last.op = "Create" /\ Posted /\ Decoded200(last.calls[2])
     /\ last.calls[2].resp.idKind \in {"absent", "empty"})
    => /\ ~last.panic
       /\ Summaries(last.diags) = {"no project ID retrieved"}
       /\ d.id = NoId
       /\ Len(last.calls) = 2

\* The remote answered the three calls of a Create faithfully: the list, the
\* POST with the id of the project it stored, the GET with that project.
FaithfulCreate ==
  /\ last.op = "Create" /\ Listed /\ last.calls[1].resp.bad = "none"
  /\ Posted /\ Decoded200(last.calls[2]) /\ last.calls[2].resp.idKind = "string"
  /\ Len(last.calls) = 3 /\ Decoded200(last.calls[3]) /\ last.calls[3].resp.bad = "none"

Computed == {"slug", "url", "open_error_count"}

\* C3: against a remote that stores what it is asked to create, Create of a
\* name that is not in the project list succeeds with the identifier the
\* remote returned, and the read by that identifier gives a record with the
\* name and the type asked for and the computed fields of the remote record.
C3_CreateReadRoundTrip ==
  (FaithfulCreate /\ last.d0.attrs["name"] \notin ListedNames)
    => /\ ~last.panic /\ ~HasError(last.diags)
       /\ d.id = IdOf(Len(last.remote0) + 1)
       /\ Knows(remote, d.id)
       /\ d.attrs["name"] = last.d0.attrs["name"]
       /\ d.attrs["type"] = last.d0.attrs["type"]
       /\ \A f \in Computed :
            d.attrs[f] # Nil /\ d.attrs[f] = RemoteField(Lookup(remote, d.id), f)

\* C4: every call that got a response closed its body exactly once.
C4_BodyClosedOnce ==
  \A i \in 1..Len(last.calls) : Answered(last.calls[i]) => last.calls[i].closes = 1

\* C5: the errors of the read that Create runs are among the diagnostics
\* Create returns.
C5_InnerReadSurfaced ==
  (last.op = "Create" /\ ~last.panic)
    => \A i \in 1..Len(last.inner) :
         last.inner[i].severity = "Error"
           => \E j \in 1..Len(last.diags) : last.diags[j] = last.inner[i]

\* C6: a 429 answer to the list call makes Create, List and Find return the
\* rate-limit diagnostic of listProjects and nothing else, and a 429 answer to
\* the auth check makes configure return its rate-limit diagnostic; neither
\* is classified as an unexpected error or as a failed authentication.
C6_RateLimitClassified ==
  /\ (last.op \in {"Create", "List", "Find"} /\ Len(last.calls) >= 1
        /\ last.calls[1].path = ListPath /\ Answered(last.calls[1])
        /\ last.calls[1].resp.status = 429)
       => /\ last.diags =
               <<Diag("Error", "rate limit reached",
                      "You have reached the rate limit, please try again later.", <<>>)>>
          /\ Len(last.calls) = 1
          /\ ~last.panic
  /\ (last.op = "configure" /\ Len(last.calls) = 1 /\ Answered(last.calls[1])
        /\ last.calls[1].resp.status = 429)
       => /\ Summaries(last.diags) = {"API rate limit exceeded"}
          /\ meta = "nil"

C6_Witness ==
  /\ last.op = "Find" /\ GivenClient /\ Len(last.calls) = 1
  /\ Answered(last.calls[1]) /\ last.calls[1].resp.status = 429
  /\ Summaries(last.diags) = {"rate limit reached"}

\* The first project of the listed ones that carries the name, and the record
\* the list call returned for it.
FirstNamed(n) ==
  last.remote0[CHOOSE i \in 1..Len(last.remote0) :
                 /\ last.remote0[i].name = n
                 /\ \A j \in 1..(i - 1) : last.remote0[j].name # n]
ReturnedFor(n) == ProjectJSON(FirstNamed(n), last.calls[1].resp.bad)

FindMisses ==
  /\ d.id = NoId
  /\ d.attrs = last.d0.attrs
  /\ Len(last.diags) = 1
  /\ last.diags[1].severity = "Error"
  /\ last.diags[1].detail.arg = last.d0.attrs["name"]

\* C7 as stated: Find with no record of the name clears the identifier,
\* copies nothing and returns an error naming the name; with a record of the
\* name it copies the fields of the first one and sets a non-empty identifier.
C7_FindByName ==
  (last.op = "Find" /\ Listed)
    => IF last.d0.attrs["name"] \notin ListedNames
       THEN FindMisses
       ELSE d.attrs = ReturnedFor(last.d0.attrs["name"]) /\ d.id # NoId

\* C7 as amended: as above when every value of the first record of the name is
\* accepted by its field; when one is rejected Find returns an error, leaves
\* the identifier as it was, and has copied only accepted values of that
\* record.
C7_FindByNameAccepted ==
  (last.op = "Find" /\ Listed)
    => LET n == last.d0.attrs["name"] IN
       IF n \notin ListedNames THEN FindMisses
       ELSE IF BadKeys(ReturnedFor(n)) = {}
       THEN d.attrs = ReturnedFor(n) /\ d.id # NoId /\ ~HasError(last.diags)
       ELSE /\ HasError(last.diags)
            /\ d.id = last.d0.id
            /\ \A f \in getProjectSchema :
                 \/ d.attrs[f] = last.d0.attrs[f]
                 \/ d.attrs[f] = ReturnedFor(n)[f] /\ f \notin BadKeys(ReturnedFor(n))

\* Two projects carry the name asked for, and Find copied the first.
C7_Witness ==
  /\ last.op = "Find" /\ Listed
  /\ Cardinality({i \in 1..Len(last.remote0) :
                    last.remote0[i].name = last.d0.attrs["name"]}) = 2
  /\ d.attrs["id"] = last.remote0[1].id
  /\ d.id # NoId /\ last.d0.id # NoId

\* C8: Read whose GET is answered with a status other than 200 returns the
\* one error "unexpected error" with the raw body of the response and leaves
\* every field as it was.
C8_ReadUnexpectedStatus ==
  (last.op = "Read" /\ GivenClient /\ Len(last.calls) = 1 /\ Answered(last.calls[1])
     /\ last.calls[1].resp.status # 200)
    => /\ ~last.panic
       /\ Len(last.diags) = 1
       /\ last.diags[1].summary = "unexpected error"
       /\ last.diags[1].detail.arg = RawBody(last.calls[1].resp)
       /\ d.attrs = last.d0.attrs

\* C9: Update and Delete make no round trip, return no diagnostics and leave
\* the remote as it was; Update leaves the data as it was given.
C9_UpdateDeleteNoOp ==
  (last.op \in {"Update", "Delete"})
    => /\ last.calls = <<>>
       /\ last.diags = <<>>
       /\ ~last.panic
       /\ remote = last.remote0
       /\ (last.op = "Update" => d = last.d0)

C9_Witness ==
  /\ last.op = "Update" /\ Len(remote) = MaxProjects
  /\ last.d0.attrs["name"] # Nil /\ Knows(remote, last.d0.id)
  /\ d = last.d0

\* C10: List of an organization that holds no project returns no error, sets
\* projects to the empty sequence and sets a non-empty identifier.
C10_ListEmptyOrganization ==
  (last.op = "List" /\ Listed /\ last.remote0 = <<>>)
    => /\ ~last.panic
       /\ ~HasError(last.diags)
       /\ d.projects = [set |-> TRUE, val |-> <<>>]
       /\ d.id # NoId

C10_Witness ==
  /\ last.op = "List" /\ Listed /\ last.remote0 = <<>>
  /\ d.projects.set /\ d.projects.val = <<>>
  /\ d.id = FormatInt(MaxTime)

\* The id a POST of this handler's run made the remote issue.
IssuedId == IdOf(Len(last.remote0) + 1)

\* C11: Read, Update, Delete, List and Find make at most one round trip.  The
\* round trips of Create are, in this order, the list call, the POST and the
\* GET of the returned id: the POST is sent only after the list call was
\* answered with a list, the GET only after the POST returned the id that is
\* now the identifier; a Create that succeeds has made all three.
C11_RoundTripOrder ==
  /\ last.op \in {"Read", "Update", "Delete", "List", "Find"} => Len(last.calls) <= 1
  /\ last.op = "Create" =>
       /\ Len(last.calls) <= 3
       /\ Len(last.calls) >= 1 =>
            last.calls[1].method = "GET" /\ last.calls[1].path = ListPath
       /\ Len(last.calls) >= 2 =>
            /\ last.calls[2].method = "POST"
            /\ Decoded200(last.calls[1])
            /\ last.d0.attrs["name"] \notin ListedNames
       /\ Len(last.calls) >= 3 =>
            /\ last.calls[3].method = "GET"
            /\ Decoded200(last.calls[2])
            /\ last.calls[2].resp.idKind = "string"
            /\ d.id = IssuedId
            /\ last.calls[3].path = ProjectPath(IssuedId)
       /\ (~last.panic /\ ~HasError(last.diags)) => Len(last.calls) = 3

\* A Create that succeeded on a remote that already held a project.
C11_Witness ==
  /\ last.op = "Create" /\ ~last.panic /\ ~HasError(last.diags)
  /\ Len(last.remote0) >= 1
  /\ Len(last.calls) = 3
  /\ last.calls[2].method = "POST"
  /\ last.calls[3].path = ProjectPath(d.id)

\* configure succeeded: a token and an organization id were given and the auth
\* check was answered 200.
Configured ==
  /\ last.op = "configure"
  /\ Len(last.calls) = 1 /\ Answered(last.calls[1]) /\ last.calls[1].resp.status = 200
  /\ ~HasError(last.diags)

\* The handler failed on m.(*Client): it panicked before any request.
AssertionFailed == last.panic /\ last.calls = <<>>

\* C12: what a successful configure hands to the host is the client it built,
\* and a handler that is given the provider's meta obtains a client from it.
C12_MetaIsClient ==
  /\ Configured => meta = "Client"
  /\ (last.op \in {"Create", "Read", "List", "Find"} /\ last.m = meta) => ~AssertionFailed

\* The answer makes listProjects return a diagnostic, and the summary of it:
\* a transport error, status 429, another status whose body was read, or a
\* 200 whose body does not decode.
ListFails(r) ==
  r.err \/ r.status = 429 \/ (r.status # 200 /\ r.readable) \/ (r.status = 200 /\ ~r.decodes)
ListFailure(r) ==
  IF r.err THEN "transport"
  ELSE IF r.status = 429 THEN "rate limit reached"
  ELSE IF r.status # 200 THEN "unexpected error"
  ELSE "decode"

\* The same for createProject, which has no case for 429 and one for an id
\* that is the empty string.
PostFails(r) ==
  \/ r.err
  \/ r.status # 200 /\ r.readable
  \/ r.status = 200 /\ ~r.decodes
  \/ r.status = 200 /\ r.decodes /\ r.idKind = "empty"
PostFailure(r) ==
  IF r.err THEN "transport"
  ELSE IF r.status # 200 THEN "unexpected error"
  ELSE IF ~r.decodes THEN "decode"
  ELSE "no project ID retrieved"

\* C13: Create stops at its first failing call and repeats none.  When the
\* list call returns a diagnostic, that call is the only one and its
\* diagnostic the only one returned; when createProject returns a diagnostic,
\* the list call and the POST are the only calls and that diagnostic the only
\* one returned.  The identifier stays unset in both cases.
C13_StopsAtFirstFailure ==
  /\ (last.op = "Create" /\ Len(last.calls) >= 1 /\ last.calls[1].path = ListPath
        /\ ListFails(last.calls[1].resp))
       => /\ Len(last.calls) = 1
          /\ ~last.panic
          /\ Len(last.diags) = 1
          /\ last.diags[1].severity = "Error"
          /\ last.diags[1].summary = ListFailure(last.calls[1].resp)
          /\ d.id = NoId
          /\ remote = last.remote0
  /\ (last.op = "Create" /\ Posted /\ PostFails(last.calls[2].resp))
       => /\ Len(last.calls) = 2
          /\ last.calls[1].path = ListPath
          /\ ~last.panic
          /\ Len(last.diags) = 1
          /\ last.diags[1].severity = "Error"
          /\ last.diags[1].summary = PostFailure(last.calls[2].resp)
          /\ d.id = NoId

\* A Create whose POST was answered 429.
C13_Witness ==
  /\ last.op = "Create" /\ Posted
  /\ Answered(last.calls[2]) /\ last.calls[2].resp.status = 429
  /\ Len(last.calls) = 2
  /\ Summaries(last.diags) = {"unexpected error"}
  /\ d.id = NoId

====
